---- MODULE Spec2Model ----
(***************************************************************************)
(* A model of huey's redis backend (src/huey/backends/redis_backend.py):   *)
(* RedisQueue / RedisBlockingQueue, RedisSchedule, RedisDataStore and      *)
(* RedisEventEmitter, driven by concurrent client processes against one    *)
(* shared redis server.  Every redis command, and the schedule's Lua       *)
(* script, executes atomically on the server; a method that issues several *)
(* commands (RedisDataStore.peek / get) or that waits for a reply          *)
(* (RedisSchedule.read, RedisBlockingQueue.read) takes several steps, and  *)
(* other processes may act between them.                                   *)
(***************************************************************************)
EXTENDS Integers, Sequences, FiniteSets, TLC

(***************************************************************************)
(* Bounds of the model.                                                    *)
(***************************************************************************)
\* client processes sharing the store
NumProcs == 2
\* distinct payloads (queue items, schedule members, event messages)
NumPayloads == 2
\* datetimes are counted in ticks, TicksPerSec ticks to the second
TicksPerSec == 2
\* the latest datetime a caller passes, in ticks
MaxTs == 2
\* Schedule.add calls in one behaviour
MaxAdds == 2
\* items the queue holds at once
MaxQueue == 2
\* the longest read_timeout a blocking queue is constructed with
MaxTimeout == 1
\* DataStore.put calls in one behaviour
MaxPuts == 2
\* EventEmitter.emit calls in one behaviour
MaxEmits == 2
\* characters in a name given to a constructor
MaxNameLen == 2

Procs == 1..NumProcs
Payloads == 1..NumPayloads
Stamps == 0..MaxTs
\* keys of the result store: HSET, HGET and HDEL name one field of the hash
\* and touch no other
Keys == {"k"}
\* stored values: opaque bytes, the empty string among them
Values == {"", "v"}

(***************************************************************************)
(* What a call hands back to its caller, and what the server replies.      *)
(***************************************************************************)
\* Python's None
None == [kind |-> "None"]
\* huey.utils.EmptyData, the "no entry" marker
EmptyData == [kind |-> "EmptyData"]
\* an exception leaving a call
Raise(e) == [kind |-> "raise", exc |-> e]
\* a payload / stored value
Bytes(v) == [kind |-> "bytes", val |-> v]
\* a list of payloads
List(s) == [kind |-> "list", items |-> s]
\* an integer reply
Count(n) == [kind |-> "int", n |-> n]
\* BRPOP's reply when it has an item: (key, value)
Pair(k, v) == [kind |-> "pair", key |-> k, val |-> v]

\* a map with no entry: an empty sorted set, an empty hash
EmptyMap == [x \in {} |-> 0]

\* map f with x set to v
Put(f, x, v) == [y \in DOMAIN f \cup {x} |-> IF y = x THEN v ELSE f[y]]

\* map f without the entries of S
Without(f, S) == [y \in DOMAIN f \ S |-> f[y]]

VARIABLES
    component,      \* which component the clients were constructed for
    read_timeout,   \* RedisBlockingQueue.read_timeout
    pc,             \* pc[p]: where process p is inside a method
    loc,            \* loc[p]: p's local variables and the reply it waits for
    queue,          \* the redis list under queue_name, head (left) first
    waiting,        \* clients blocked in BRPOP, longest-waiting first
    sched,          \* the redis sorted set under key: member -> score
    store,          \* the redis hash under storage_name: field -> value
    subscribed,     \* processes subscribed to the emitter's channel
    inbox,          \* inbox[p]: messages delivered to subscriber p
    emitted,        \* history: the messages emitted so far
    last,           \* the step just taken, and what it handed back
    dueOf,          \* history: the datetime each member was last added with
    owed,           \* history: (payload, datetime) added, not yet returned due
    addCount,       \* history: Schedule.add calls per payload
    heldCount,      \* history: times a payload became a member of the set
    retCount,       \* history: read results that contained the payload
    pending,        \* history: payloads written and not yet read, oldest first
    everPut,        \* history: values ever put under a key
    lastPut,        \* history: per key, the value put and not yet taken by get
    nPuts           \* history: DataStore.put calls so far

cfgVars == <<component, read_timeout>>
procVars == <<pc, loc>>
queueVars == <<queue, waiting, pending>>
schedVars == <<sched, dueOf, owed, addCount, heldCount, retCount>>
storeVars == <<store, everPut, lastPut, nPuts>>
emitVars == <<subscribed, inbox, emitted>>
vars == <<cfgVars, procVars, queueVars, schedVars, storeVars, emitVars, last>>

\* a process between two calls holds nothing
NoLocals == [op |-> "none"]

\* what `last` records of a completed call
Done(op, out, exc, cmds) == [op |-> op, out |-> out, exc |-> exc, cmds |-> cmds]

RECURSIVE SumOver(_, _)
SumOver(f, S) ==
    IF S = {} THEN 0
    ELSE LET x == CHOOSE y \in S : TRUE IN f[x] + SumOver(f, S \ {x})

Total(f) == SumOver(f, DOMAIN f)

(***************************************************************************)
(* RedisSchedule                                                           *)
(***************************************************************************)
\* time.mktime(ts.timetuple()): a timetuple has no microseconds, so the
\* score is the datetime's whole second
convert_ts(ts) == ts \div TicksPerSec

\* ZADD key score member: adds the member, or moves it when it is present
ZAdd(z, member, score) == Put(z, member, score)

\* an order by member alone, whatever the scores
ZByMember(z, a, b) == a < b

\* redis orders a sorted set by score, then by member
ZBefore(z, a, b) == z[a] < z[b] \/ (z[a] = z[b] /\ a < b)

\* the place of member a among the members S, lowest first
ZRank(z, S, a) == Cardinality({b \in S : ZBefore(z, b, a)}) + 1

ZOrdered(z, S) ==
    [i \in 1..Cardinality(S) |-> CHOOSE a \in S : ZRank(z, S, a) = i]

\* the members ZRANGEBYSCORE / ZREMRANGEBYSCORE key -inf max select
ZInRange(z, max) == {m \in DOMAIN z : z[m] <= max}

ZRangeByScore(z, max) == ZOrdered(z, ZInRange(z, max))

ZRemRangeByScore(z, max) ==
    [zset |-> Without(z, ZInRange(z, max)), removed |-> Cardinality(ZInRange(z, max))]

\* Lua: every value but nil and false is true, the number 0 included
LuaTruthy(n) == n \in Int

\* the script's reply when it returns nothing
LuaNil == [kind |-> "nil"]

\* a variant of the script that returns what it read and removes nothing
PopWithoutRemove(z, unix_ts) ==
    [zset |-> z, reply |-> List(ZRangeByScore(z, unix_ts))]

\* a variant of the script that ignores the cutoff
PopEverything(z, unix_ts) ==
    [zset |-> EmptyMap, reply |-> List(ZOrdered(z, DOMAIN z))]

\* a variant of the script that removes the due items and returns nothing
PopAndForget(z, unix_ts) ==
    [zset |-> ZRemRangeByScore(z, unix_ts).zset, reply |-> LuaNil]

\* a variant of the script whose deletion leaves out the score equal to the
\* cutoff ('(' .. unix_ts): the two counts then disagree
PopCountsDisagree(z, unix_ts) ==
    LET res == ZRangeByScore(z, unix_ts)
        below == {m \in DOMAIN z : z[m] < unix_ts}
    IN IF Cardinality(below) = Len(res)
       THEN [zset |-> Without(z, below), reply |-> List(res)]
       ELSE [zset |-> Without(z, below), reply |-> LuaNil]

\* the script, run atomically by the server: the sorted set after it, and
\* its reply
SCHEDULE_POP_LUA(z, unix_ts) ==
    LET res == ZRangeByScore(z, unix_ts)
    IN IF ~LuaTruthy(Len(res)) THEN [zset |-> z, reply |-> LuaNil]
       ELSE LET rem == ZRemRangeByScore(z, unix_ts)
            IN IF rem.removed = Len(res)
               THEN [zset |-> rem.zset, reply |-> List(res)]
               ELSE [zset |-> rem.zset, reply |-> LuaNil]

\* redis-py hands a nil reply over as None
ScriptReply(r) == IF r.kind = "nil" THEN None ELSE r

\* return [] if tasks is None else tasks
ScheduleReadResult(tasks) == IF tasks.kind = "None" THEN List(<<>>) ELSE tasks

Members(out) == {out.items[i] : i \in 1..Len(out.items)}

\* RedisSchedule.add(data, ts)
ScheduleAdd(p, data, ts) ==
    /\ component = "schedule"
    /\ pc[p] = "idle"
    /\ Total(addCount) < MaxAdds
    /\ sched' = ZAdd(sched, data, convert_ts(ts))
    /\ dueOf' = Put(dueOf, data, ts)
    /\ owed' = owed \cup {[data |-> data, ts |-> ts]}
    /\ addCount' = [addCount EXCEPT ![data] = @ + 1]
    /\ heldCount' = [heldCount EXCEPT ![data] = IF data \in DOMAIN sched THEN @ ELSE @ + 1]
    /\ last' = Done("Schedule.add", None, "none", <<"ZADD">>)
    /\ UNCHANGED <<cfgVars, procVars, queueVars, retCount, storeVars, emitVars>>

\* RedisSchedule.read(ts): the script runs atomically on the server, and the
\* caller turns its reply into the result
ScheduleRead(p, ts) ==
    /\ component = "schedule"
    /\ pc[p] = "idle"
    /\ LET unix_ts == convert_ts(ts)
           r == SCHEDULE_POP_LUA(sched, unix_ts)
           tasks == ScriptReply(r.reply)
           out == ScheduleReadResult(tasks)
           got == Members(out)
       IN /\ sched' = r.zset
          /\ owed' = {it \in owed : ~(it.data \in got /\ convert_ts(it.ts) <= unix_ts)}
          /\ dueOf' = Without(dueOf, DOMAIN dueOf \ DOMAIN r.zset)
          /\ retCount' = [m \in Payloads |->
                            IF m \in got THEN retCount[m] + 1 ELSE retCount[m]]
          /\ last' = [op |-> "Schedule.read", out |-> out, exc |-> "none",
                      cmds |-> <<"EVALSHA">>, cutoff |-> ts, tasks |-> tasks,
                      dues |-> [m \in got \cap DOMAIN dueOf |-> dueOf[m]],
                      owed |-> owed, before |-> sched]
    /\ UNCHANGED <<cfgVars, procVars, queueVars, addCount, heldCount, storeVars, emitVars>>

\* RedisSchedule.flush()
ScheduleFlush(p) ==
    /\ component = "schedule"
    /\ pc[p] = "idle"
    /\ sched' = EmptyMap
    /\ owed' = {}
    /\ dueOf' = EmptyMap
    /\ last' = Done("Schedule.flush", None, "none", <<"DEL">>)
    /\ UNCHANGED <<cfgVars, procVars, queueVars, addCount, heldCount, retCount, storeVars, emitVars>>

(***************************************************************************)
(* How a call treats an exception of the redis client                      *)
(***************************************************************************)
\* a handler that lets the connection error through and absorbs the rest
ExceptTypeErrorOnly(r) ==
    IF r.kind = "raise" /\ r.exc \in {"TypeError", "IndexError"} THEN None ELSE r

\* RedisBlockingQueue.read: except (ConnectionError, TypeError, IndexError):
\* return None
BlockingReadExcept(r) ==
    IF r.kind = "raise" /\ r.exc \in {"ConnectionError", "TypeError", "IndexError"}
    THEN None ELSE r

\* a method that swallowed the exception as the blocking read does
Swallow(r) == BlockingReadExcept(r)

\* every other method has no try block: what the client raises leaves the
\* method as it is
Propagate(r) == r

(***************************************************************************)
(* RedisQueue and RedisBlockingQueue                                       *)
(***************************************************************************)
\* the key of the list; BRPOP names it in its reply
queue_name == "huey.redis.name"

\* a push at the wrong end of the list: RPUSH, the new item becomes the tail
RPush(q, data) == Append(q, data)

\* LPUSH: the new item becomes the head
LPush(q, data) == <<data>> \o q

Front(q) == SubSeq(q, 1, Len(q) - 1)

\* a pop at the wrong end of the list: the head, the item pushed last
LPop(q) ==
    IF q = <<>> THEN [list |-> q, reply |-> None]
    ELSE [list |-> Tail(q), reply |-> Bytes(Head(q))]

\* RPOP: the list after it, and the reply (nil on an empty list)
RPop(q) ==
    IF q = <<>> THEN [list |-> q, reply |-> None]
    ELSE [list |-> Front(q), reply |-> Bytes(q[Len(q)])]

RECURSIVE RemoveFirst(_, _, _)
RemoveFirst(q, n, v) ==
    IF q = <<>> \/ n = 0 THEN q
    ELSE IF Head(q) = v THEN RemoveFirst(Tail(q), n - 1, v)
    ELSE <<Head(q)>> \o RemoveFirst(Tail(q), n, v)

\* LREM key count value: count = 0 removes every occurrence, count > 0 the
\* first count occurrences from the head
LRem(q, count, v) ==
    IF count = 0 THEN SelectSeq(q, LAMBDA x : x # v) ELSE RemoveFirst(q, count, v)

\* conn.lrem(queue_name, data) names no count: redis.Redis.lrem(name, value,
\* num=0)
LRemCount == 0

RECURSIVE Reverse(_)
Reverse(q) == IF q = <<>> THEN <<>> ELSE Append(Reverse(Tail(q)), Head(q))

\* RedisQueue.write(data); the server hands the item to the longest-waiting
\* blocked BRPOP, when there is one
QueueWrite(p, data) ==
    /\ component = "queue"
    /\ pc[p] = "idle"
    /\ Len(queue) < MaxQueue
    /\ LET pushed == LPush(queue, data)
       IN IF waiting # <<>>
          THEN LET w == Head(waiting)
                   r == RPop(pushed)
               IN /\ queue' = r.list
                  /\ waiting' = Tail(waiting)
                  /\ pc' = [pc EXCEPT ![w] = "brpop_reply"]
                  /\ loc' = [loc EXCEPT ![w] =
                               [op |-> "BlockingQueue.read", timeout |-> loc[w].timeout,
                                waited |-> TRUE, reply |-> Pair(queue_name, r.reply.val)]]
                  /\ pending' = Tail(Append(pending, data))
          ELSE /\ queue' = pushed
               /\ pending' = Append(pending, data)
               /\ UNCHANGED <<waiting, procVars>>
    /\ last' = Done("Queue.write", None, "none", <<"LPUSH">>)
    /\ UNCHANGED <<cfgVars, schedVars, storeVars, emitVars>>

\* RedisQueue.read()
QueueRead(p) ==
    /\ component = "queue"
    /\ pc[p] = "idle"
    /\ LET r == RPop(queue)
       IN /\ queue' = r.list
          /\ pending' = IF r.reply.kind = "bytes" /\ pending # <<>>
                        THEN Tail(pending) ELSE pending
          /\ last' = [op |-> "Queue.read", out |-> Propagate(r.reply), exc |-> "none",
                      cmds |-> <<"RPOP">>, expect |-> pending, before |-> queue]
    /\ UNCHANGED <<cfgVars, procVars, waiting, schedVars, storeVars, emitVars>>

\* RedisQueue.remove(data)
QueueRemove(p, data) ==
    /\ component = "queue"
    /\ pc[p] = "idle"
    /\ queue' = LRem(queue, LRemCount, data)
    /\ pending' = Reverse(queue')
    /\ last' = [op |-> "Queue.remove", out |-> Count(Len(queue) - Len(queue')),
                exc |-> "none", cmds |-> <<"LREM">>, data |-> data, before |-> queue]
    /\ UNCHANGED <<cfgVars, procVars, waiting, schedVars, storeVars, emitVars>>

\* a flush that empties the whole database (FLUSHDB) instead of deleting the
\* one key
QueueFlushDb(p) ==
    /\ component = "queue"
    /\ pc[p] = "idle"
    /\ queue' = <<>>
    /\ pending' = <<>>
    /\ sched' = EmptyMap
    /\ store' = EmptyMap
    /\ last' = Done("Queue.flush", None, "none", <<"FLUSHDB">>)
    /\ UNCHANGED <<cfgVars, procVars, waiting, dueOf, owed, addCount, heldCount,
                   retCount, everPut, lastPut, nPuts, emitVars>>

\* RedisQueue.flush()
QueueFlush(p) ==
    /\ component = "queue"
    /\ pc[p] = "idle"
    /\ queue' = <<>>
    /\ pending' = <<>>
    /\ last' = Done("Queue.flush", None, "none", <<"DEL">>)
    /\ UNCHANGED <<cfgVars, procVars, waiting, schedVars, storeVars, emitVars>>

\* RedisQueue.__len__()
QueueLen(p) ==
    /\ component = "queue"
    /\ pc[p] = "idle"
    /\ last' = Done("Queue.__len__", Count(Len(queue)), "none", <<"LLEN">>)
    /\ UNCHANGED <<cfgVars, procVars, queueVars, schedVars, storeVars, emitVars>>

\* a call that always passes a timeout of one second
AlwaysTimeout(rt) == 1

\* brpop(queue_name, timeout=self.read_timeout): redis-py sends 0 for None,
\* and BRPOP 0 blocks without limit
BrpopTimeout(rt) == IF rt.set THEN rt.secs ELSE 0

\* brpop(...)[1]: None cannot be subscripted
Subscript1(reply) ==
    IF reply.kind = "pair" THEN Bytes(reply.val) ELSE Raise("TypeError")

\* RedisBlockingQueue.read(), the call: BRPOP pops at once from a list that
\* has an item, and blocks the client on an empty one
BlockingReadCall(p) ==
    /\ component = "queue"
    /\ pc[p] = "idle"
    /\ IF queue # <<>>
       THEN LET r == RPop(queue)
            IN /\ queue' = r.list
               /\ pending' = IF pending # <<>> THEN Tail(pending) ELSE pending
               /\ pc' = [pc EXCEPT ![p] = "brpop_reply"]
               /\ loc' = [loc EXCEPT ![p] =
                            [op |-> "BlockingQueue.read",
                             timeout |-> BrpopTimeout(read_timeout), waited |-> FALSE,
                             reply |-> Pair(queue_name, r.reply.val)]]
               /\ UNCHANGED waiting
       ELSE /\ waiting' = Append(waiting, p)
            /\ pc' = [pc EXCEPT ![p] = "brpop_wait"]
            /\ loc' = [loc EXCEPT ![p] =
                         [op |-> "BlockingQueue.read",
                          timeout |-> BrpopTimeout(read_timeout), waited |-> TRUE,
                          reply |-> None]]
            /\ UNCHANGED <<queue, pending>>
    /\ last' = [op |-> "BlockingQueue.read/call", out |-> None, exc |-> "none",
                cmds |-> <<"BRPOP">>]
    /\ UNCHANGED <<cfgVars, schedVars, storeVars, emitVars>>

\* the server ends a blocked BRPOP whose timeout has run out: a nil reply
BrpopExpire(p) ==
    /\ pc[p] = "brpop_wait"
    /\ loc[p].timeout > 0
    /\ waiting' = SelectSeq(waiting, LAMBDA w : w # p)
    /\ pc' = [pc EXCEPT ![p] = "brpop_reply"]
    /\ last' = [op |-> "BRPOP/expire", out |-> None, exc |-> "none", cmds |-> <<>>]
    /\ UNCHANGED <<cfgVars, loc, queue, pending, schedVars, storeVars, emitVars>>

\* RedisBlockingQueue.read(), from the reply to the return
BlockingReadReturn(p) ==
    /\ pc[p] = "brpop_reply"
    /\ LET r == Subscript1(loc[p].reply)
       IN last' = [op |-> "BlockingQueue.read", out |-> BlockingReadExcept(r),
                   exc |-> IF r.kind = "raise" THEN r.exc ELSE "none",
                   cmds |-> <<"BRPOP">>, timeout |-> loc[p].timeout,
                   waited |-> loc[p].waited, reply |-> loc[p].reply, at |-> pc[p]]
    /\ pc' = [pc EXCEPT ![p] = "idle"]
    /\ loc' = [loc EXCEPT ![p] = NoLocals]
    /\ UNCHANGED <<cfgVars, queueVars, schedVars, storeVars, emitVars>>

\* the connection fails while the client waits in BRPOP, or before it has
\* read the reply: the client raises ConnectionError, and an item the server
\* had already popped for this client is gone
BlockingReadDisconnect(p) ==
    /\ pc[p] \in {"brpop_wait", "brpop_reply"}
    /\ waiting' = SelectSeq(waiting, LAMBDA w : w # p)
    /\ last' = [op |-> "BlockingQueue.read",
                out |-> BlockingReadExcept(Raise("ConnectionError")),
                exc |-> "ConnectionError", cmds |-> <<"BRPOP">>,
                timeout |-> loc[p].timeout, waited |-> loc[p].waited,
                reply |-> loc[p].reply, at |-> pc[p]]
    /\ pc' = [pc EXCEPT ![p] = "idle"]
    /\ loc' = [loc EXCEPT ![p] = NoLocals]
    /\ UNCHANGED <<cfgVars, queue, pending, schedVars, storeVars, emitVars>>

(***************************************************************************)
(* RedisDataStore                                                          *)
(***************************************************************************)
HSet(h, k, v) == Put(h, k, v)

HExists(h, k) == k \in DOMAIN h

\* HGET: nil, handed over as None, for a field that is not set
HGet(h, k) == IF k \in DOMAIN h THEN Bytes(h[k]) ELSE None

\* an HDEL that deletes nothing
HDelNothing(h, k) == h

HDel(h, k) == Without(h, {k})

\* history: what a caller that runs alone expects a read of k to return
Expected(k) == IF k \in DOMAIN lastPut THEN Bytes(lastPut[k]) ELSE EmptyData

\* RedisDataStore.put(key, value)
DataStorePut(p, k, v) ==
    /\ component = "results"
    /\ pc[p] = "idle"
    /\ nPuts < MaxPuts
    /\ store' = HSet(store, k, v)
    /\ everPut' = [everPut EXCEPT ![k] = @ \cup {v}]
    /\ lastPut' = Put(lastPut, k, v)
    /\ nPuts' = nPuts + 1
    /\ last' = [op |-> "DataStore.put", out |-> None, exc |-> "none",
                cmds |-> <<"HSET">>, key |-> k]
    /\ UNCHANGED <<cfgVars, procVars, queueVars, schedVars, emitVars>>

\* RedisDataStore.peek(key), its first command: if self.conn.hexists(...)
DataStorePeekCall(p, k) ==
    /\ component = "results"
    /\ pc[p] = "idle"
    /\ IF HExists(store, k)
       THEN /\ pc' = [pc EXCEPT ![p] = "peek_hget"]
            /\ loc' = [loc EXCEPT ![p] =
                         [op |-> "DataStore.peek", key |-> k, exp |-> Expected(k)]]
            /\ last' = [op |-> "DataStore.peek/hexists", out |-> None, exc |-> "none",
                        cmds |-> <<"HEXISTS">>]
       ELSE /\ last' = [op |-> "DataStore.peek", out |-> EmptyData, exc |-> "none",
                        cmds |-> <<"HEXISTS">>, key |-> k, exp |-> Expected(k)]
            /\ UNCHANGED procVars
    /\ UNCHANGED <<cfgVars, queueVars, schedVars, storeVars, emitVars>>

\* RedisDataStore.peek(key), its second command: return self.conn.hget(...)
DataStorePeekReturn(p) ==
    /\ pc[p] = "peek_hget"
    /\ last' = [op |-> "DataStore.peek", out |-> Propagate(HGet(store, loc[p].key)),
                exc |-> "none", cmds |-> <<"HEXISTS", "HGET">>,
                key |-> loc[p].key, exp |-> loc[p].exp]
    /\ pc' = [pc EXCEPT ![p] = "idle"]
    /\ loc' = [loc EXCEPT ![p] = NoLocals]
    /\ UNCHANGED <<cfgVars, queueVars, schedVars, storeVars, emitVars>>

\* RedisDataStore.get(key): val = self.peek(key), peek's first command;
\* EmptyData is returned at once
DataStoreGetCall(p, k) ==
    /\ component = "results"
    /\ pc[p] = "idle"
    /\ IF HExists(store, k)
       THEN /\ pc' = [pc EXCEPT ![p] = "get_hget"]
            /\ loc' = [loc EXCEPT ![p] =
                         [op |-> "DataStore.get", key |-> k, exp |-> Expected(k)]]
            /\ last' = [op |-> "DataStore.get/hexists", out |-> None, exc |-> "none",
                        cmds |-> <<"HEXISTS">>]
       ELSE /\ last' = [op |-> "DataStore.get", out |-> EmptyData, exc |-> "none",
                        cmds |-> <<"HEXISTS">>, key |-> k, exp |-> Expected(k)]
            /\ UNCHANGED procVars
    /\ UNCHANGED <<cfgVars, queueVars, schedVars, storeVars, emitVars>>

\* RedisDataStore.get(key): val = self.peek(key), peek's second command
DataStoreGetPeeked(p) ==
    /\ pc[p] = "get_hget"
    /\ LET val == HGet(store, loc[p].key)
       IN IF val # EmptyData
          THEN /\ pc' = [pc EXCEPT ![p] = "get_hdel"]
               /\ loc' = [loc EXCEPT ![p] =
                            [op |-> "DataStore.get", key |-> loc[p].key,
                             exp |-> loc[p].exp, val |-> val]]
               /\ last' = [op |-> "DataStore.get/hget", out |-> None, exc |-> "none",
                           cmds |-> <<"HEXISTS", "HGET">>]
          ELSE /\ pc' = [pc EXCEPT ![p] = "idle"]
               /\ loc' = [loc EXCEPT ![p] = NoLocals]
               /\ last' = [op |-> "DataStore.get", out |-> val, exc |-> "none",
                           cmds |-> <<"HEXISTS", "HGET">>,
                           key |-> loc[p].key, exp |-> loc[p].exp]
    /\ UNCHANGED <<cfgVars, queueVars, schedVars, storeVars, emitVars>>

\* a get that fetches and deletes in one step: a caller whose field is gone
\* by then returns EmptyData
GetFetchAndDelete(p) ==
    /\ pc[p] = "get_hdel"
    /\ store' = HDel(store, loc[p].key)
    /\ lastPut' = Without(lastPut, {loc[p].key})
    /\ last' = [op |-> "DataStore.get",
                out |-> IF HExists(store, loc[p].key)
                        THEN HGet(store, loc[p].key) ELSE EmptyData,
                exc |-> "none", cmds |-> <<"HEXISTS", "HGET", "HDEL">>,
                key |-> loc[p].key, exp |-> loc[p].exp]
    /\ pc' = [pc EXCEPT ![p] = "idle"]
    /\ loc' = [loc EXCEPT ![p] = NoLocals]
    /\ UNCHANGED <<cfgVars, queueVars, schedVars, everPut, nPuts, emitVars>>

\* RedisDataStore.get(key): self.conn.hdel(...); return val
DataStoreGetReturn(p) ==
    /\ pc[p] = "get_hdel"
    /\ store' = HDel(store, loc[p].key)
    /\ lastPut' = IF loc[p].val.kind = "bytes" THEN Without(lastPut, {loc[p].key})
                  ELSE lastPut
    /\ last' = [op |-> "DataStore.get", out |-> Propagate(loc[p].val), exc |-> "none",
                cmds |-> <<"HEXISTS", "HGET", "HDEL">>,
                key |-> loc[p].key, exp |-> loc[p].exp]
    /\ pc' = [pc EXCEPT ![p] = "idle"]
    /\ loc' = [loc EXCEPT ![p] = NoLocals]
    /\ UNCHANGED <<cfgVars, queueVars, schedVars, everPut, nPuts, emitVars>>

\* RedisDataStore.flush()
DataStoreFlush(p) ==
    /\ component = "results"
    /\ pc[p] = "idle"
    /\ store' = EmptyMap
    /\ lastPut' = EmptyMap
    /\ last' = Done("DataStore.flush", None, "none", <<"DEL">>)
    /\ UNCHANGED <<cfgVars, procVars, queueVars, schedVars, everPut, nPuts, emitVars>>

(***************************************************************************)
(* RedisEventEmitter                                                       *)
(***************************************************************************)
\* an emit that reaches every client, subscribed to the channel or not
EmitToAll(p, msg) ==
    /\ component = "events"
    /\ pc[p] = "idle"
    /\ Len(emitted) < MaxEmits
    /\ emitted' = Append(emitted, msg)
    /\ inbox' = [s \in Procs |-> Append(inbox[s], msg)]
    /\ last' = [op |-> "EventEmitter.emit", out |-> None, exc |-> "none",
                cmds |-> <<"PUBLISH">>, msg |-> msg, to |-> Procs]
    /\ UNCHANGED <<cfgVars, procVars, queueVars, schedVars, storeVars, subscribed>>

\* RedisEventEmitter.emit(message): PUBLISH reaches the clients subscribed
\* to the channel now, and is kept nowhere
Emit(p, msg) ==
    /\ component = "events"
    /\ pc[p] = "idle"
    /\ Len(emitted) < MaxEmits
    /\ emitted' = Append(emitted, msg)
    /\ inbox' = [s \in Procs |->
                   IF s \in subscribed THEN Append(inbox[s], msg) ELSE inbox[s]]
    /\ last' = [op |-> "EventEmitter.emit", out |-> None, exc |-> "none",
                cmds |-> <<"PUBLISH">>, msg |-> msg, to |-> subscribed]
    /\ UNCHANGED <<cfgVars, procVars, queueVars, schedVars, storeVars, subscribed>>

\* a consumer of events subscribes to the channel
Subscribe(p) ==
    /\ component = "events"
    /\ p \notin subscribed
    /\ subscribed' = subscribed \cup {p}
    /\ last' = [op |-> "subscribe", out |-> None, exc |-> "none", cmds |-> <<>>]
    /\ UNCHANGED <<cfgVars, procVars, queueVars, schedVars, storeVars, inbox, emitted>>

\* a consumer of events leaves the channel
Unsubscribe(p) ==
    /\ component = "events"
    /\ p \in subscribed
    /\ subscribed' = subscribed \ {p}
    /\ last' = [op |-> "unsubscribe", out |-> None, exc |-> "none", cmds |-> <<>>]
    /\ UNCHANGED <<cfgVars, procVars, queueVars, schedVars, storeVars, inbox, emitted>>

(***************************************************************************)
(* An unreachable store                                                    *)
(***************************************************************************)
\* the methods of each component, with the first command each sends
Methods(c) ==
    CASE c = "queue" ->
           {<<"Queue.write", "LPUSH">>, <<"Queue.read", "RPOP">>,
            <<"Queue.remove", "LREM">>, <<"Queue.flush", "DEL">>,
            <<"Queue.__len__", "LLEN">>, <<"BlockingQueue.read", "BRPOP">>}
      [] c = "schedule" ->
           {<<"Schedule.add", "ZADD">>, <<"Schedule.read", "EVALSHA">>,
            <<"Schedule.flush", "DEL">>}
      [] c = "results" ->
           {<<"DataStore.put", "HSET">>, <<"DataStore.peek", "HEXISTS">>,
            <<"DataStore.get", "HEXISTS">>, <<"DataStore.flush", "DEL">>}
      [] c = "events" -> {<<"EventEmitter.emit", "PUBLISH">>}

\* what the method does with an exception of the client
Handler(op, r) ==
    IF op = "BlockingQueue.read" THEN BlockingReadExcept(r) ELSE Propagate(r)

\* a call whose first command finds the store unreachable: the client raises
\* ConnectionError and the store is left as it was
CallFails(p) ==
    /\ pc[p] = "idle"
    /\ \E m \in Methods(component) :
          last' = [op |-> m[1], out |-> Handler(m[1], Raise("ConnectionError")),
                   exc |-> "ConnectionError", cmds |-> <<m[2]>>, at |-> "idle"]
    /\ UNCHANGED <<cfgVars, procVars, queueVars, schedVars, storeVars, emitVars>>

\* the command a call sends next, from where the call stands
NextCommand(at) ==
    CASE at = "peek_hget" -> <<"HEXISTS", "HGET">>
      [] at = "get_hget" -> <<"HEXISTS", "HGET">>
      [] at = "get_hdel" -> <<"HEXISTS", "HGET", "HDEL">>

\* peek or get finds the store unreachable at a later command
StepFails(p) ==
    /\ pc[p] \in {"peek_hget", "get_hget", "get_hdel"}
    /\ last' = [op |-> loc[p].op, out |-> Handler(loc[p].op, Raise("ConnectionError")),
                exc |-> "ConnectionError", cmds |-> NextCommand(pc[p]), at |-> pc[p]]
    /\ pc' = [pc EXCEPT ![p] = "idle"]
    /\ loc' = [loc EXCEPT ![p] = NoLocals]
    /\ UNCHANGED <<cfgVars, queueVars, schedVars, storeVars, emitVars>>

(***************************************************************************)
(* The system                                                              *)
(***************************************************************************)
Components == {"queue", "schedule", "results", "events"}

\* read_timeout=None, or a number of seconds
NoTimeout == [set |-> FALSE, secs |-> 0]
ReadTimeouts == {NoTimeout} \cup {[set |-> TRUE, secs |-> n] : n \in 0..MaxTimeout}

Init ==
    /\ component \in Components
    /\ read_timeout \in ReadTimeouts
    /\ component # "queue" => read_timeout = NoTimeout
    /\ pc = [p \in Procs |-> "idle"]
    /\ loc = [p \in Procs |-> NoLocals]
    /\ queue = <<>>
    /\ waiting = <<>>
    /\ sched = EmptyMap
    /\ store = EmptyMap
    /\ subscribed = {}
    /\ inbox = [p \in Procs |-> <<>>]
    /\ emitted = <<>>
    /\ last = Done("none", None, "none", <<>>)
    /\ dueOf = EmptyMap
    /\ owed = {}
    /\ addCount = [m \in Payloads |-> 0]
    /\ heldCount = [m \in Payloads |-> 0]
    /\ retCount = [m \in Payloads |-> 0]
    /\ pending = <<>>
    /\ everPut = [k \in Keys |-> {}]
    /\ lastPut = EmptyMap
    /\ nPuts = 0

Step(p) ==
    \/ \E data \in Payloads : QueueWrite(p, data)
    \/ QueueRead(p)
    \/ \E data \in Payloads : QueueRemove(p, data)
    \/ QueueFlush(p)
    \/ QueueLen(p)
    \/ BlockingReadCall(p)
    \/ BrpopExpire(p)
    \/ BlockingReadReturn(p)
    \/ BlockingReadDisconnect(p)
    \/ \E data \in Payloads, ts \in Stamps : ScheduleAdd(p, data, ts)
    \/ \E ts \in Stamps : ScheduleRead(p, ts)
    \/ ScheduleFlush(p)
    \/ \E k \in Keys, v \in Values : DataStorePut(p, k, v)
    \/ \E k \in Keys : DataStorePeekCall(p, k)
    \/ DataStorePeekReturn(p)
    \/ \E k \in Keys : DataStoreGetCall(p, k)
    \/ DataStoreGetPeeked(p)
    \/ DataStoreGetReturn(p)
    \/ DataStoreFlush(p)
    \/ \E msg \in Payloads : Emit(p, msg)
    \/ Subscribe(p)
    \/ Unsubscribe(p)
    \/ CallFails(p)
    \/ StepFails(p)

\* any number of processes, in any interleaving
Next == \E p \in Procs : Step(p)

Spec == Init /\ [][Next]_vars

\* one caller: no call starts before the last one has returned
Caller == CHOOSE p \in Procs : TRUE

NextSeq == Step(Caller)

SpecSeq == Init /\ [][NextSeq]_vars

\* callers that poll the schedule again and again with one cutoff, late
\* enough for every item to be due, while a producer still adds items and
\* now and then finds the store unreachable
PollCutoff == MaxTs

Poll(p) == ScheduleRead(p, PollCutoff)

InitPoll == Init /\ component = "schedule"

NextPoll ==
    \/ \E data \in Payloads, ts \in Stamps : ScheduleAdd(Caller, data, ts)
    \/ \E p \in Procs : Poll(p)
    \/ CallFails(Caller)

\* the callers keep polling: a poll is taken whenever one stays possible
\* (fair scheduling of each caller gives at least that)
AnyPoll == \E p \in Procs : Poll(p)

SpecPoll == InitPoll /\ [][NextPoll]_vars /\ WF_vars(AnyPoll)

\* callers that contend for the schedule: any of them adds, reads with any
\* cutoff, flushes or finds the store unreachable, and reads keep coming
NextContend ==
    \E p \in Procs :
        \/ \E data \in Payloads, ts \in Stamps : ScheduleAdd(p, data, ts)
        \/ \E ts \in Stamps : ScheduleRead(p, ts)
        \/ ScheduleFlush(p)
        \/ CallFails(p)

AnyRead == \E p \in Procs, ts \in Stamps : ScheduleRead(p, ts)

SpecContend == InitPoll /\ [][NextContend]_vars /\ WF_vars(AnyRead)

\* producers and consumers of one queue with the store reachable: any caller
\* writes, reads (blocking or not) or asks for the length; nobody removes or
\* flushes
NextDeliver ==
    \E p \in Procs :
        \/ \E data \in Payloads : QueueWrite(p, data)
        \/ QueueRead(p)
        \/ QueueLen(p)
        \/ BlockingReadCall(p)
        \/ BrpopExpire(p)
        \/ BlockingReadReturn(p)

InitDeliver == Init /\ component = "queue"

SpecDeliver == InitDeliver /\ [][NextDeliver]_vars

\* names and keys are strings, modelled as sequences of characters
Lower == {"a", "b", "c", "d", "e", "f", "g", "h", "i", "j", "k", "l", "m",
          "n", "o", "p", "q", "r", "s", "t", "u", "v", "w", "x", "y", "z"}
Digits == {"0", "1", "2", "3", "4", "5", "6", "7", "8", "9"}

\* the characters of the names a caller supplies
NameChars == {"a", "Q", "7", ".", "-"}

RECURSIVE SeqsUpTo(_, _)
SeqsUpTo(S, n) ==
    IF n = 0 THEN {<<>>}
    ELSE LET shorter == SeqsUpTo(S, n - 1)
         IN shorter \cup {Append(s, ch) : s \in shorter, ch \in S}

Names == SeqsUpTo(NameChars, MaxNameLen)

\* clean_name(name): re.sub('[^a-z0-9]', '', name)
clean_name(name) == SelectSeq(name, LAMBDA ch : ch \in Lower \cup Digits)

\* 'huey.redis.%s', 'huey.schedule.%s' and 'huey.results.%s'
QueuePrefix == <<"h", "u", "e", "y", ".", "r", "e", "d", "i", "s", ".">>
SchedulePrefix ==
    <<"h", "u", "e", "y", ".", "s", "c", "h", "e", "d", "u", "l", "e", ".">>
ResultsPrefix ==
    <<"h", "u", "e", "y", ".", "r", "e", "s", "u", "l", "t", "s", ".">>

\* the key or channel an instance of the component works on
PhysicalName(c, name) ==
    CASE c = "queue" -> QueuePrefix \o clean_name(name)
      [] c = "schedule" -> SchedulePrefix \o clean_name(name)
      [] c = "results" -> ResultsPrefix \o clean_name(name)
      [] c = "events" -> name

\* __init__(name, **connection) of the component in focus
Construct(name) ==
    /\ last' = [op |-> "__init__", out |-> None, exc |-> "none", cmds |-> <<>>,
                component |-> component, name |-> name,
                physical |-> PhysicalName(component, name)]
    /\ UNCHANGED <<cfgVars, procVars, queueVars, schedVars, storeVars, emitVars>>

NextNames == \E name \in Names : Construct(name)

SpecNames == Init /\ [][NextNames]_vars

\* the components share one store: Components = (RedisBlockingQueue,
\* RedisDataStore, RedisSchedule, RedisEventEmitter).  The caller turns from
\* one component to another, and what the others hold stays in the store
Switch(p, c) ==
    /\ \A q \in Procs : pc[q] = "idle"
    /\ c # component
    /\ component' = c
    /\ last' = Done("switch", None, "none", <<>>)
    /\ UNCHANGED <<read_timeout, procVars, queueVars, schedVars, storeVars, emitVars>>

\* one caller that uses the queue, the schedule and the result store of one
\* store side by side: it fills and flushes them in any order
NextShared ==
    \/ \E c \in Components \ {"events"} : Switch(Caller, c)
    \/ \E data \in Payloads : QueueWrite(Caller, data)
    \/ QueueFlush(Caller)
    \/ \E data \in Payloads : ScheduleAdd(Caller, data, PollCutoff)
    \/ ScheduleFlush(Caller)
    \/ \E k \in Keys : DataStorePut(Caller, k, "v")
    \/ DataStoreFlush(Caller)

InitShared == Init /\ component = "queue" /\ read_timeout = NoTimeout

SpecShared == InitShared /\ [][NextShared]_vars

(***************************************************************************)
(* The properties                                                          *)
(***************************************************************************)
\* the items of a list are all different
Distinct(q) == \A i, j \in 1..Len(q) : q[i] = q[j] => i = j

\* the second a datetime falls in
WholeSecond(t) == t \div TicksPerSec

\* the step just taken is a read of the schedule that returned
ScheduleReadDone == last.op = "Schedule.read" /\ last.exc = "none"

\* C1: at-most-once schedule delivery.  Whatever the interleaving of adds and
\* reads by any processes, a payload is contained in no more read results
\* than there were adds of it (so an item added once is in the result of at
\* most one read), and no read result holds an item twice.
C1_AtMostOnceDelivery ==
    /\ \A m \in Payloads : retCount[m] <= addCount[m]
    /\ ScheduleReadDone => Distinct(last.out.items)

\* C1, its case: an item added once has been returned by one read, and the
\* read just taken, whose cutoff is not before it, does not return it again
C1_Witness ==
    /\ ScheduleReadDone
    /\ \E m \in Payloads :
          /\ addCount[m] = 1
          /\ retCount[m] = 1
          /\ m \notin Members(last.out)
          /\ last.cutoff = MaxTs

\* C2: no scheduled item is lost.  After any adds and reads, an added
\* (payload, datetime) that no read has returned yet is in the result of a
\* read exactly when it is due at the read's cutoff: every add is returned
\* by the first read whose cutoff is not before its datetime.  (Due is taken
\* at the whole-second resolution of the scores, and a returned payload
\* counts for every add of it that is due.)
C2_EveryDueAddReturned ==
    ScheduleReadDone =>
        /\ \A it \in last.owed :
              WholeSecond(it.ts) <= WholeSecond(last.cutoff)
                  => it.data \in Members(last.out)
        /\ \A m \in Members(last.out) :
              \E it \in last.owed :
                  it.data = m /\ WholeSecond(it.ts) <= WholeSecond(last.cutoff)

C4_PollersDrainSchedule ==
    <>[](DOMAIN sched = {} /\ \A m \in Payloads : retCount[m] = heldCount[m])

\* C4, its case: two items were held and the pollers returned both
C4_Witness ==
    /\ ScheduleReadDone
    /\ DOMAIN sched = {}
    /\ Total(heldCount) >= 2
    /\ \A m \in Payloads : retCount[m] = heldCount[m]

\* C5: queue FIFO.  With one caller at a time, a read returns the payload
\* written earliest among those not yet read, and a read of an empty queue
\* returns None and leaves the queue as it was.
C5_QueueFifo ==
    (last.op = "Queue.read" /\ last.exc = "none") =>
        IF last.expect = <<>>
        THEN last.out = None /\ queue = last.before
        ELSE last.out = Bytes(Head(last.expect))

\* C5, its case: two different payloads were waiting, and the read returned
\* the one written first
C5_Witness ==
    /\ last.op = "Queue.read"
    /\ last.exc = "none"
    /\ Len(last.expect) >= 2
    /\ last.expect[1] # last.expect[2]
    /\ last.out = Bytes(last.expect[1])

\* C6: the blocking read never surfaces a connectivity failure.  It returns
\* None when the connection fails, as it does when the wait times out, and
\* never ends in an exception.
C6_BlockingReadAbsorbsFailure ==
    last.op = "BlockingQueue.read" =>
        /\ last.out.kind # "raise"
        /\ last.exc \in {"ConnectionError", "TypeError"} => last.out = None

\* C6, its case: the connection failed while the reader was blocked
C6_Witness ==
    /\ last.op = "BlockingQueue.read"
    /\ last.exc = "ConnectionError"
    /\ last.at = "brpop_wait"
    /\ last.out = None

\* C7: the blocking read blocks until an item or the timeout.  A reader is
\* blocked only while the queue is empty; with the connection up, it returns
\* None only when a timeout above zero was configured and ended the wait
\* with no item, and it returns the item the server popped for it otherwise.
C7_BlocksUntilItemOrTimeout ==
    /\ \A p \in Procs : pc[p] = "brpop_wait" => queue = <<>>
    /\ (last.op = "BlockingQueue.read" /\ last.exc # "ConnectionError") =>
          /\ last.out = None =>
                /\ read_timeout.set
                /\ read_timeout.secs > 0
                /\ last.waited
                /\ last.reply = None
          /\ last.reply.kind = "pair" => last.out = Bytes(last.reply.val)

\* C7, its case: a reader waited on an empty queue until its timeout ended
C7_Witness ==
    /\ last.op = "BlockingQueue.read"
    /\ last.exc = "TypeError"
    /\ last.waited
    /\ last.out = None

\* every method but the blocking read
NonBlocking ==
    {m[1] : m \in UNION {Methods(c) : c \in Components}} \ {"BlockingQueue.read"}

\* C8: a method other than the blocking read hands a connectivity failure to
\* its caller as the client's exception, which is none of the results for
\* logical absence; it ends in an exception for no other reason, and sends
\* no command twice.
C8_FailurePropagates ==
    last.op \in NonBlocking =>
        /\ last.exc = "ConnectionError" =>
              /\ last.out = Raise("ConnectionError")
              /\ last.out.kind \notin {None.kind, List(<<>>).kind, EmptyData.kind}
        /\ last.out.kind = "raise" => last.exc = "ConnectionError"
        /\ Distinct(last.cmds)

\* C8, its case: get found the store unreachable at its last command
C8_Witness ==
    /\ last.op = "DataStore.get"
    /\ last.exc = "ConnectionError"
    /\ last.at = "get_hdel"
    /\ last.out = Raise("ConnectionError")

\* the step just taken is a peek or a get that returned
StoreReadDone == last.op \in {"DataStore.peek", "DataStore.get"} /\ last.exc = "none"

\* C9: DataStore, one caller at a time.  A peek or get returns the value
\* last put under the key and not yet taken by a get or cleared (the empty
\* value as itself), and EmptyData when there is none; a peek that returned
\* a value leaves it in place, and a get that returned one removes it.
C9_DataStoreSequential ==
    StoreReadDone =>
        /\ last.out = last.exp
        /\ (last.op = "DataStore.peek" /\ last.out.kind = "bytes") =>
              (last.key \in DOMAIN store /\ store[last.key] = last.out.val)
        /\ last.op = "DataStore.get" => last.key \notin DOMAIN store

\* C9, its case: a get finds EmptyData under a key that held a value, after
\* the one put of the run
C9_Witness ==
    /\ last.op = "DataStore.get"
    /\ last.exc = "none"
    /\ last.out = EmptyData
    /\ everPut[last.key] # {}
    /\ nPuts = 1

\* C10: in every interleaving, a peek or get returns a value that was put
\* under the key, or EmptyData, and nothing else.
C10_ReadsReturnValueOrEmptyData ==
    StoreReadDone =>
        \/ last.out = EmptyData
        \/ last.out.kind = "bytes" /\ last.out.val \in everPut[last.key]

\* q with its i-th item taken out
DropAt(q, i) == SubSeq(q, 1, i - 1) \o SubSeq(q, i + 1, Len(q))

\* C11: Queue.remove(payload) takes exactly one occurrence of the payload out
\* of the queue when there is one (the length drops by one and every other
\* item, other copies included, keeps its place), and changes nothing when
\* there is none.
C11_RemoveExactlyOne ==
    (last.op = "Queue.remove" /\ last.exc = "none") =>
        IF \E i \in 1..Len(last.before) : last.before[i] = last.data
        THEN /\ Len(queue) = Len(last.before) - 1
             /\ \E i \in 1..Len(last.before) :
                   last.before[i] = last.data /\ queue = DropAt(last.before, i)
        ELSE queue = last.before

\* what each read-only operation returns on the store as it stands, by a
\* caller that runs alone
LenNow(q) == Count(Len(q))
ReadNow(q) == Propagate(RPop(q).reply)
ScheduleReadNow(z, ts) ==
    ScheduleReadResult(ScriptReply(SCHEDULE_POP_LUA(z, convert_ts(ts)).reply))
PeekNow(h, k) == IF HExists(h, k) THEN Propagate(HGet(h, k)) ELSE EmptyData

\* the step is a flush of the named component that returned
Flushed(op) == last'.op = op /\ last'.exc = "none"

\* after a flush the component answers as a new one does
C12_FlushedAsNew ==
    /\ (last.op = "Queue.flush" /\ last.exc = "none") =>
          (LenNow(queue) = Count(0) /\ ReadNow(queue) = None)
    /\ (last.op = "Schedule.flush" /\ last.exc = "none") =>
          \A ts \in Stamps : ScheduleReadNow(sched, ts) = List(<<>>)
    /\ (last.op = "DataStore.flush" /\ last.exc = "none") =>
          \A k \in Keys : PeekNow(store, k) = EmptyData

\* a flush leaves what the other components hold as it was
C12_FlushFrame ==
    /\ Flushed("Queue.flush") => UNCHANGED <<sched, store, inbox>>
    /\ Flushed("Schedule.flush") => UNCHANGED <<queue, store, inbox>>
    /\ Flushed("DataStore.flush") => UNCHANGED <<queue, sched, inbox>>

\* C12: after a flush of a Queue, Schedule or DataStore, whatever came
\* before, the component behaves as a new one (length 0 and read absent, read
\* of the schedule [] for every cutoff, peek/get EmptyData for every key),
\* and the flush leaves the contents of the other components unchanged.
C12_FlushAsNewAndFramed == []C12_FlushedAsNew /\ [][C12_FlushFrame]_vars

\* C12, its case: the schedule was flushed while it held an item, and the
\* queue and the result store still hold theirs
C12_Witness ==
    /\ last.op = "Schedule.flush"
    /\ last.exc = "none"
    /\ \E m \in Payloads : heldCount[m] > retCount[m]
    /\ queue # <<>>
    /\ DOMAIN store # {}

\* the namespace and the kinds of the naming convention
Namespace == <<"h", "u", "e", "y">>
KindOf(c) ==
    CASE c = "queue" -> <<"q", "u", "e", "u", "e">>
      [] c = "schedule" -> <<"s", "c", "h", "e", "d", "u", "l", "e">>
      [] c = "results" -> <<"r", "e", "s", "u", "l", "t", "s">>

\* the name, its characters other than lowercase letters and digits left out
Sanitized(name) ==
    LET keep == {i \in 1..Len(name) : name[i] \in Lower \cup Digits}
        nth(k) == CHOOSE i \in keep : Cardinality({j \in keep : j < i}) = k - 1
    IN [k \in 1..Cardinality(keep) |-> name[nth(k)]]

\* C13: the physical key of a Queue, Schedule or DataStore is
\* <namespace>.<kind>.<sanitized-name>, with kind queue, schedule or results
\* and the name restricted to lowercase letters and digits; the EventEmitter
\* uses its channel name as given.
C13_PhysicalNames ==
    last.op = "__init__" =>
        IF last.component = "events" THEN last.physical = last.name
        ELSE last.physical =
                Namespace \o <<".">> \o KindOf(last.component) \o <<".">>
                    \o Sanitized(last.name)

\* the step is an emit that was published
EmitStep == emitted' # emitted

\* what an emit does: a client subscribed now gets the message at most once,
\* any other client gets nothing, and no key of the store changes
C14_EmitDelivery ==
    EmitStep =>
        /\ \A s \in Procs :
              IF s \in subscribed
              THEN inbox'[s] \in {inbox[s], Append(inbox[s], last'.msg)}
              ELSE inbox'[s] = inbox[s]
        /\ UNCHANGED <<queue, sched, store>>

\* C14: emit is fire-and-forget.  A message reaches each client subscribed
\* at the moment of the emit at most once; no step but an emit delivers
\* anything, so a client that subscribes later never receives the message;
\* and the emit changes nothing the queue, the schedule or the result store
\* holds.
C14_FireAndForget == [][C14_EmitDelivery /\ (~EmitStep => inbox' = inbox)]_vars

\* C14, its case: a client subscribed after the messages were emitted and has
\* none of them, while another client received them all
C14_Witness ==
    /\ emitted # <<>>
    /\ \E s, t \in Procs :
          /\ s \in subscribed
          /\ inbox[s] = <<>>
          /\ inbox[t] = emitted

\* the members the schedule held, when the script of the read just taken
\* ran, with a score not after the read's cutoff
DueBefore == {m \in DOMAIN last.before : last.before[m] <= convert_ts(last.cutoff)}

\* a read met due items / a read came back empty in spite of them
ReadMetDue == ScheduleReadDone /\ DueBefore # {}
ReadEmptyDespiteDue == ReadMetDue /\ last.out.items = <<>>

\* C15, as stated: among contending readers a read may come back empty
\* although the schedule held a due item when its script ran: where reads
\* meet due items, some read returns [] in spite of them.
C15_MayReturnEmptyDespiteDue == (<>ReadMetDue) => (<>ReadEmptyDespiteDue)

\* C15, amended: a read never comes back empty when the schedule held a due
\* item as its script ran; the script runs as one unit on the server, the
\* two counts always agree, and the read returns every due member.
C15_NeverEmptyWhenDue ==
    ScheduleReadDone => Members(last.out) = DueBefore

\* C15, its case: a read met a due item, after an earlier read had taken
\* another, and returned it
C15_Witness ==
    /\ ReadMetDue
    /\ last.out.items # <<>>
    /\ \E m \in Payloads : retCount[m] >= 1 /\ m \notin Members(last.out)

\* caller p's get, which has read its value, returns in this step
GetReturns(p) ==
    /\ pc[p] = "get_hdel"
    /\ pc'[p] = "idle"
    /\ last'.exc = "none"

\* C16: get is a peek followed by a delete, not one step.  A get returns the
\* value its own read observed, whatever became of the field since; so two
\* gets that both read v, put once, before either deletes, both return v.
C16_GetReturnsWhatItRead ==
    [][\A p \in Procs :
          GetReturns(p) => (last'.op = "DataStore.get" /\ last'.out = loc[p].val)]_vars

\* C16, its case: after the one put of v, two gets of the key have both read
\* v and neither has deleted the field yet
C16_Witness ==
    /\ nPuts = 1
    /\ \E p, q \in Procs, k \in Keys :
          /\ p # q
          /\ pc[p] = "get_hdel" /\ pc[q] = "get_hdel"
          /\ loc[p].key = k /\ loc[q].key = k
          /\ k \in DOMAIN store
          /\ loc[p].val = Bytes(store[k]) /\ loc[q].val = Bytes(store[k])

\* C17: get deletes only the value it returns.  In every interleaving of puts
\* and gets of a key, the value a get's delete takes out of the store is the
\* value that get returns: no value put is removed without being returned
\* (or overwritten, or flushed), and a put that lands between a get's read
\* and its delete is not lost.
C17_GetDeletesOnlyWhatItReturns ==
    [][\A p \in Procs :
          (GetReturns(p) /\ loc[p].key \in DOMAIN store
                /\ loc[p].key \notin DOMAIN store')
              => last'.out = Bytes(store[loc[p].key])]_vars

\* the item the server has popped for caller p's blocking read and p has not
\* returned yet, as a sequence of at most one item
InFlight(l, c, p) ==
    IF c[p] = "brpop_reply" /\ l[p].reply.kind = "pair" THEN <<l[p].reply.val>>
    ELSE <<>>

\* the items of the queue, the one written first leading
OldestFirst(q) == Reverse(q)

\* one step of the producers and consumers
C18_DeliveryStep ==
    LET landed == {p \in Procs : InFlight(loc, pc, p) = <<>>
                                    /\ InFlight(loc', pc', p) # <<>>}
        released == {p \in Procs : InFlight(loc, pc, p) # <<>>
                                      /\ InFlight(loc', pc', p) = <<>>}
        written == IF last'.op = "Queue.write" THEN {<<d>> : d \in Payloads}
                   ELSE {<<>>}
        direct == IF last'.op = "Queue.read" /\ last'.out.kind = "bytes"
                  THEN <<last'.out.val>> ELSE <<>>
        taken == IF landed = {} THEN direct
                 ELSE InFlight(loc', pc', CHOOSE p \in landed : TRUE)
    IN \* an item leaves the list for one reader only, and it is the oldest
       /\ Cardinality(landed) <= 1
       /\ landed # {} => direct = <<>>
       /\ \E w \in written : OldestFirst(queue) \o w = taken \o OldestFirst(queue')
       \* an item popped for a blocked reader stays with it until that
       \* reader returns it
       /\ \A p \in Procs \ (landed \cup released) :
             InFlight(loc', pc', p) = InFlight(loc, pc, p)
       /\ Cardinality(released) <= 1
       /\ \A p \in released :
             /\ last'.op = "BlockingQueue.read"
             /\ last'.out = Bytes(InFlight(loc, pc, p)[1])
       \* and a blocking read returns no item but the one popped for it
       /\ (last'.op = "BlockingQueue.read" /\ last'.out.kind = "bytes")
             => released # {}

\* C18: exactly-once delivery among any number of concurrent writers and
\* readers, blocking or not, without remove or flush and with the store
\* reachable.  Every written item leaves the list once, for one read, which
\* returns it; none is lost; and the items leave in the order they were
\* written, those of one producer in that producer's order.
C18_ExactlyOnceInOrder == [][C18_DeliveryStep]_vars

\* C18, its case: a write handed its item to a blocked reader, which has not
\* returned yet, and another item has been written since
C18_Witness ==
    /\ queue # <<>>
    /\ \E p \in Procs : loc[p].op = "BlockingQueue.read"
                          /\ loc[p].waited /\ InFlight(loc, pc, p) # <<>>

\* C19: a blocking read that returns None has taken nothing out of the
\* queue, also when the connection fails during the blocking pop or right
\* after it: the store popped no item for a read that returned None.
C19_NoneRemovedNothing ==
    (last.op = "BlockingQueue.read" /\ last.out = None /\ "reply" \in DOMAIN last)
        => last.reply.kind # "pair"

\* C20: the sequence one read returns lists the due items by their converted
\* due-timestamps, none before an earlier one, in whatever order the items
\* were added.
C20_ReturnedInDueOrder ==
    ScheduleReadDone =>
        \A i, j \in 1..Len(last.out.items) :
            i < j => convert_ts(last.dues[last.out.items[i]])
                        <= convert_ts(last.dues[last.out.items[j]])

\* C20, its case: a read returned two items that are due in different
\* seconds, the one with the greater payload first
C20_Witness ==
    /\ ScheduleReadDone
    /\ Len(last.out.items) >= 2
    /\ last.out.items[1] > last.out.items[2]
    /\ convert_ts(last.dues[last.out.items[1]])
          < convert_ts(last.dues[last.out.items[2]])

====
